---- MODULE Spec2Model ----
(***************************************************************************)
(* Model of nexus-cli: the registry client (internal/pkg/registry) and the *)
(* command handlers that drive it (cmd/nexus-cli/main.go).                 *)
(*                                                                         *)
(* One CLI invocation is one behaviour: Init draws the command line, each  *)
(* step is the handler's code up to and including its next HTTP exchange,  *)
(* with the server's answer drawn from a bounded set of responses.         *)
(*                                                                         *)
(* Go strings that the code inspects (tags, image names) are sequences of  *)
(* one-character strings; opaque ones (asset ids, digests) are strings.    *)
(***************************************************************************)
EXTENDS Integers, Sequences, FiniteSets, TLC

VARIABLES
    args,       \* the command line: cmd, name given, tag, keep, credentials file ok
    pc,         \* position of the handler
    resp,       \* the response the last read operation received
    out,        \* (data, err) returned by the last read operation
    listed,     \* tags as returned by ListTagsByImage
    sorted,     \* tags after Compare(...).Sort
    todo,       \* the slice the retention loop ranges over
    idx,        \* number of loop iterations completed
    calls,      \* one record per DeleteImageByTag call
    log,        \* HTTP requests issued on behalf of DeleteImageByTag
    manifests,  \* layers of the manifests fetched by showTotalImageSize
    sizeInfo,   \* showTotalImageSize: map digest -> size
    result      \* how the command ended

vars == <<args, pc, resp, out, listed, sorted, todo, idx, calls, log,
          manifests, sizeInfo, result>>

-----------------------------------------------------------------------------
(* Bounds *)

MaxTags == 3        \* longest tag / image list the server answers with
MaxKeep == 3        \* largest --keep value tried
MaxSpare == 1       \* largest spare capacity (cap - len) of a decoded slice

(* Program constants *)

StatusOK == 200
StatusAccepted == 202

-----------------------------------------------------------------------------
(* Values *)

EmptyString == <<>>

Digits == {"0", "1", "2", "3", "4", "5", "6", "7", "8", "9"}

DigitVal(c) ==
    CASE c = "0" -> 0 [] c = "1" -> 1 [] c = "2" -> 2 [] c = "3" -> 3
      [] c = "4" -> 4 [] c = "5" -> 5 [] c = "6" -> 6 [] c = "7" -> 7
      [] c = "8" -> 8 [] c = "9" -> 9

\* tags the registry may hold
TagPool == { <<"v", "2">>, <<"v", "1", "0">>, <<"r", "2", "-", "1">> }

\* layers the registry may hold: content addressed, so the digest fixes the size
LayerA == [digest |-> "sha:a", size |-> 3]
LayerB == [digest |-> "sha:b", size |-> 5]
LayerC == [digest |-> "sha:c", size |-> 11]

ZeroLayer == [digest |-> "", size |-> 0]

\* errors
NoErr == [kind |-> "nil", code |-> 0]
HTTPErr(code) == [kind |-> "http", code |-> code]
TransportErr == [kind |-> "transport", code |-> 0]
ConfigErr == [kind |-> "config", code |-> 0]

\* a JSON array element: of the type the Go field wants, or not
JGood(v) == [typed |-> TRUE, v |-> v]
JBad(zero) == [typed |-> FALSE, v |-> zero]

\* a response body: syntactically valid JSON or not, and the array it carries
Body(json, val) == [json |-> json, val |-> val]
NoBody == Body(FALSE, <<>>)

\* an HTTP exchange: transport failure, or a status and a body
Response(status, body) == [ok |-> TRUE, status |-> status, body |-> body]
TransportFail == [ok |-> FALSE, status |-> 0, body |-> NoBody]

Statuses == {StatusOK, StatusAccepted, 404}

\* sequences without repetition over S, of length at most n
RECURSIVE Arrangements(_, _)
Arrangements(S, n) ==
    IF n = 0 THEN { <<>> }
    ELSE LET shorter == Arrangements(S, n - 1)
         IN  shorter \cup { Append(s, x) : s \in shorter, x \in S }

NoRepeat(s) == \A i, j \in 1..Len(s) : i # j => s[i] # s[j]

Lists(S, n) == { s \in Arrangements(S, n) : NoRepeat(s) }

-----------------------------------------------------------------------------
(* Responses of the server *)

\* catalog and tag list bodies: an array of strings, an element of which may
\* be of another JSON type
StringArrays ==
    Lists({ JGood(t) : t \in TagPool } \cup { JBad(EmptyString) }, MaxTags)

ListResponses ==
    { TransportFail }
      \cup { Response(StatusOK, Body(TRUE, a)) : a \in StringArrays }
      \cup { Response(StatusOK, NoBody) }
      \cup { Response(s, Body(TRUE, << JGood(<<"v", "2">>) >>)) :
                s \in Statuses \ {StatusOK} }

\* manifest bodies: the "layers" array
LayerArrays ==
    { <<>>,
      << JGood(LayerA) >>,
      << JGood(LayerA), JGood(LayerB) >>,
      << JGood(LayerB), JBad(ZeroLayer), JGood(LayerC), JGood(LayerB) >> }

ManifestResponses ==
    { TransportFail }
      \cup { Response(StatusOK, Body(TRUE, a)) : a \in LayerArrays }
      \cup { Response(StatusOK, NoBody) }
      \cup { Response(s, Body(TRUE, << JGood(LayerA) >>)) :
                s \in Statuses \ {StatusOK} }

\* search bodies: the "items" array; an item is its "assets" array of ids
Item(assets) == [assets |-> assets]

ItemArrays ==
    { <<>>,
      << JGood(Item(<<>>)) >>,
      << JGood(Item(<< "id1", "id2" >>)), JGood(Item(<< "id3" >>)) >> }

SearchResponses ==
    { TransportFail }
      \cup { Response(StatusOK, Body(TRUE, a)) : a \in ItemArrays }
      \cup { Response(404, Body(TRUE, << JGood(Item(<< "id1" >>)) >>)) }

DeleteResponses ==
    { TransportFail, Response(StatusAccepted, NoBody), Response(404, NoBody) }

-----------------------------------------------------------------------------
(* The registry client *)

\* json.NewDecoder(resp.Body).Decode(&v) for the array field of v: a body
\* that is not JSON stores nothing; an element of the wrong JSON type leaves
\* the zero value in its place and decoding goes on; either way Decode
\* returns an error, which every caller drops.
Decode(body, zero) ==
    IF ~body.json
    THEN [val |-> <<>>, failed |-> TRUE]
    ELSE [val |-> [i \in 1..Len(body.val) |->
                      IF body.val[i].typed THEN body.val[i].v ELSE zero],
          failed |-> \E i \in 1..Len(body.val) : ~body.val[i].typed]

\* faulty variant: only statuses from 400 on are errors
ListImages_StatusBelow400(r) ==
    IF ~r.ok THEN [data |-> <<>>, err |-> TransportErr]
    ELSE IF r.status >= 400 THEN [data |-> <<>>, err |-> HTTPErr(r.status)]
    ELSE [data |-> Decode(r.body, EmptyString).val, err |-> NoErr]

ListImages(r) ==
    IF ~r.ok THEN [data |-> <<>>, err |-> TransportErr]
    ELSE IF r.status # StatusOK THEN [data |-> <<>>, err |-> HTTPErr(r.status)]
    ELSE [data |-> Decode(r.body, EmptyString).val, err |-> NoErr]

\* variant that returns the error of Decode instead of dropping it
ListTagsByImage_DecodeErrorReturned(r) ==
    IF ~r.ok THEN [data |-> <<>>, err |-> TransportErr]
    ELSE IF r.status # StatusOK THEN [data |-> <<>>, err |-> HTTPErr(r.status)]
    ELSE IF Decode(r.body, EmptyString).failed
         THEN [data |-> <<>>, err |-> [kind |-> "decode", code |-> 0]]
    ELSE [data |-> Decode(r.body, EmptyString).val, err |-> NoErr]

ListTagsByImage(r) ==
    IF ~r.ok THEN [data |-> <<>>, err |-> TransportErr]
    ELSE IF r.status # StatusOK THEN [data |-> <<>>, err |-> HTTPErr(r.status)]
    ELSE [data |-> Decode(r.body, EmptyString).val, err |-> NoErr]

ZeroManifest == [layers |-> <<>>]

ImageManifest(r) ==
    IF ~r.ok THEN [data |-> ZeroManifest, err |-> TransportErr]
    ELSE IF r.status # StatusOK
         THEN [data |-> ZeroManifest, err |-> HTTPErr(r.status)]
    ELSE [data |-> [layers |-> Decode(r.body, ZeroLayer).val], err |-> NoErr]

\* faulty variant: the status of the answer is not looked at
SearchAssets_NoStatusCheck(r) ==
    IF ~r.ok THEN [data |-> <<>>, err |-> TransportErr]
    ELSE [data |-> Decode(r.body, Item(<<>>)).val, err |-> NoErr]

SearchAssets(r) ==
    IF ~r.ok THEN [data |-> <<>>, err |-> TransportErr]
    ELSE IF r.status # StatusOK THEN [data |-> <<>>, err |-> HTTPErr(r.status)]
    ELSE [data |-> Decode(r.body, Item(<<>>)).val, err |-> NoErr]

DeleteImageByTagByAssetId(r) ==
    IF ~r.ok THEN TransportErr
    ELSE IF r.status # StatusAccepted THEN HTTPErr(r.status)
    ELSE NoErr

\* DeleteImageByTag after its search: return, go on to the DELETE, or panic
\* on Items[0].Assets[0]
DeleteImageByTagPlan(s) ==
    IF s.err # NoErr
    THEN [do |-> "return", err |-> s.err, assetId |-> "", msg |-> "none"]
    ELSE IF Len(s.data) > 0
         THEN IF Len(s.data[1].assets) = 0
              THEN [do |-> "panic", err |-> NoErr, assetId |-> "", msg |-> "none"]
              ELSE [do |-> "delete", err |-> NoErr,
                    assetId |-> s.data[1].assets[1], msg |-> "none"]
         ELSE [do |-> "return", err |-> NoErr, assetId |-> "", msg |-> "noassets"]

\* DeleteImageByTag after its DELETE: the error of DeleteImageByTagByAssetId
\* is dropped, the success line is printed and nil is returned
DeleteImageByTagReturn(deleteErr) ==
    [err |-> NoErr, msg |-> "deleted"]

-----------------------------------------------------------------------------
(* The numeric tag comparator *)

HasDigit(s) == \E i \in 1..Len(s) : s[i] \in Digits

FirstDigit(s) == CHOOSE i \in 1..Len(s) :
    s[i] \in Digits /\ \A j \in 1..(i - 1) : s[j] \notin Digits

RunEnd(s, i) == CHOOSE j \in i..Len(s) :
    /\ \A k \in i..j : s[k] \in Digits
    /\ j = Len(s) \/ s[j + 1] \notin Digits

RECURSIVE ParseInt(_, _, _)
ParseInt(s, i, j) ==
    IF j < i THEN 0 ELSE ParseInt(s, i, j - 1) * 10 + DigitVal(s[j])

\* the first run of digits of the tag as a base-10 number, 0 without a digit
extractNumberFromString(s) ==
    IF ~HasDigit(s) THEN 0
    ELSE ParseInt(s, FirstDigit(s), RunEnd(s, FirstDigit(s)))

compareStringNumber(str1, str2) ==
    extractNumberFromString(str1) < extractNumberFromString(str2)

\* Compare(less).Sort(tags): the tags reordered so that no tag is less than
\* one before it; the order among equal tags is not defined
SortedOrders(tags) ==
    { [i \in 1..Len(tags) |-> tags[f[i]]] : f \in
        { g \in Permutations(1..Len(tags)) :
            \A i, j \in 1..Len(tags) :
                i < j => ~compareStringNumber(tags[g[j]], tags[g[i]]) } }

-----------------------------------------------------------------------------
(* Command handlers *)

Commands == {"ls", "tags", "info", "delete", "size"}

KeepValues == (-1)..MaxKeep

Running == [kind |-> "running", err |-> NoErr, total |-> 0]
Ok == [kind |-> "ok", err |-> NoErr, total |-> 0]
Help == [kind |-> "help", err |-> NoErr, total |-> 0]
Failed(err) == [kind |-> "error", err |-> err, total |-> 0]
Panic(site) == [kind |-> "panic", err |-> [kind |-> site, code |-> 0], total |-> 0]
Printed(total) == [kind |-> "ok", err |-> NoErr, total |-> total]

EmptyMap == [d \in {} |-> 0]
NoOut == [data |-> <<>>, err |-> NoErr]

Init ==
    /\ args \in { a \in [cmd : Commands, name : BOOLEAN,
                         tag : {EmptyString, <<"v", "2">>},
                         keep : KeepValues, creds : BOOLEAN] :
                    a.cmd # "delete" => (a.keep = 0 /\ a.tag = EmptyString) }
    /\ pc = "start"
    /\ resp = TransportFail      \* nothing received yet
    /\ out = NoOut
    /\ listed = <<>>
    /\ sorted = <<>>
    /\ todo = <<>>
    /\ idx = 0
    /\ calls = <<>>
    /\ log = <<>>
    /\ manifests = <<>>
    /\ sizeInfo = EmptyMap
    /\ result = Running

Finish(r) == pc' = "done" /\ result' = r

OpenCall(cs, tag) ==
    Append(cs, [tag |-> tag, state |-> "running", err |-> NoErr, msg |-> "none",
                asset |-> ""])

CloseCall(cs, state, err, msg) ==
    [cs EXCEPT ![Len(cs)] = [@ EXCEPT !.state = state, !.err = err, !.msg = msg]]

\* tags[:high] of a slice with the given capacity: the elements past its
\* length are zero values; past its capacity the slice expression panics
SliceTo(tags, cap, high) ==
    IF high > cap
    THEN [ok |-> FALSE, val |-> <<>>]
    ELSE [ok |-> TRUE,
          val |-> [i \in 1..high |-> IF i <= Len(tags) THEN tags[i] ELSE EmptyString]]

\* faulty variant: tags[keep:], the newest tags instead of the oldest
RetentionSlice_DeleteNewest(tags, cap, keep) ==
    IF keep < 0 \/ keep > Len(tags)
    THEN SliceTo(tags, cap, Len(tags) - keep)
    ELSE [ok |-> TRUE, val |-> SubSeq(tags, keep + 1, Len(tags))]

\* deleteImage: tags[:len(tags)-keep]
RetentionSlice(tags, cap, keep) == SliceTo(tags, cap, Len(tags) - keep)

\* the capacities a decoded slice of the given length may have
Capacities(n) == IF n = 0 THEN {0} ELSE n..(n + MaxSpare)


\* faulty variant: sizeInfo[layer.Digest] += layer.Size
MapPut_Accumulate(m, k, v) ==
    [d \in DOMAIN m \cup {k} |->
        IF d = k THEN (IF k \in DOMAIN m THEN m[k] + v ELSE v) ELSE m[d]]

\* sizeInfo[layer.Digest] = layer.Size
MapPut(m, k, v) == [d \in DOMAIN m \cup {k} |-> IF d = k THEN v ELSE m[d]]

\* for _, layer := range manifest.Layers { sizeInfo[layer.Digest] = layer.Size }
RECURSIVE StoreLayers(_, _)
StoreLayers(m, layers) ==
    IF layers = <<>> THEN m
    ELSE StoreLayers(MapPut(m, Head(layers).digest, Head(layers).size), Tail(layers))

\* for _, size := range sizeInfo { totalSize += size }
RECURSIVE SumSizes(_)
SumSizes(m) ==
    IF DOMAIN m = {} THEN 0
    ELSE LET d == CHOOSE x \in DOMAIN m : TRUE
         IN  m[d] + SumSizes([x \in DOMAIN m \ {d} |-> m[x]])

\* every handler begins by reading its flags and the credentials file
Start ==
    /\ pc = "start"
    /\ IF args.cmd \in {"delete", "size"} /\ ~args.name
       THEN /\ Finish(Help)
            /\ calls' = calls
       ELSE IF ~args.creds
       THEN /\ Finish(Failed(ConfigErr))
            /\ calls' = calls
       ELSE IF args.cmd = "delete" /\ args.tag = EmptyString /\ args.keep = 0
       THEN /\ Finish(Help)
            /\ calls' = calls
       ELSE IF args.cmd = "delete" /\ args.tag # EmptyString
       THEN /\ pc' = "search"
            /\ calls' = OpenCall(calls, args.tag)
            /\ result' = result
       ELSE /\ pc' = (CASE args.cmd = "ls" -> "listImages"
                        [] args.cmd = "info" -> "manifest"
                        [] OTHER -> "listTags")
            /\ calls' = calls
            /\ result' = result
    /\ UNCHANGED <<args, resp, out, listed, sorted, todo, idx, log, manifests, sizeInfo>>

listImages ==
    /\ pc = "listImages"
    /\ \E r \in ListResponses :
         LET o == ListImages(r)
         IN  /\ resp' = r
             /\ out' = o
             /\ Finish(IF o.err # NoErr THEN Failed(o.err) ELSE Ok)
    /\ UNCHANGED <<args, listed, sorted, todo, idx, calls, log, manifests, sizeInfo>>

listTagsByImage ==
    /\ pc = "listTags"
    /\ args.cmd = "tags"
    /\ \E r \in ListResponses :
         LET o == ListTagsByImage(r)
         IN  /\ resp' = r
             /\ out' = o
             /\ listed' = o.data
             /\ sorted' \in SortedOrders(o.data)
             /\ Finish(IF o.err # NoErr THEN Failed(o.err) ELSE Ok)
    /\ UNCHANGED <<args, todo, idx, calls, log, manifests, sizeInfo>>

showImageInfo ==
    /\ pc = "manifest"
    /\ args.cmd = "info"
    /\ \E r \in ManifestResponses :
         LET o == ImageManifest(r)
         IN  /\ resp' = r
             /\ out' = o
             /\ Finish(IF o.err # NoErr THEN Failed(o.err) ELSE Ok)
    /\ UNCHANGED <<args, listed, sorted, todo, idx, calls, log, manifests, sizeInfo>>

\* deleteImage with --keep: list, sort, slice, and enter the loop
deleteImageListTags ==
    /\ pc = "listTags"
    /\ args.cmd = "delete"
    /\ \E r \in ListResponses :
         LET o == ListTagsByImage(r)
         IN  /\ resp' = r
             /\ out' = o
             /\ listed' = o.data
             /\ \E s \in SortedOrders(o.data), cap \in Capacities(Len(o.data)) :
                  LET sl == RetentionSlice(s, cap, args.keep)
                  IN  /\ sorted' = s
                      /\ IF o.err # NoErr
                         THEN /\ Finish(Failed(o.err))
                              /\ UNCHANGED <<todo, calls>>
                         ELSE IF Len(s) >= args.keep
                         THEN IF ~sl.ok
                              THEN /\ Finish(Panic("slice"))
                                   /\ UNCHANGED <<todo, calls>>
                              ELSE /\ todo' = sl.val
                                   /\ IF Len(sl.val) > 0
                                      THEN /\ calls' = OpenCall(calls, sl.val[1])
                                           /\ pc' = "search"
                                           /\ result' = result
                                      ELSE /\ calls' = calls
                                           /\ Finish(Ok)
                         ELSE /\ Finish(Ok)
                              /\ UNCHANGED <<todo, calls>>
    /\ UNCHANGED <<args, idx, log, manifests, sizeInfo>>

\* what the caller of DeleteImageByTag does when it returns err: the single
\* tag path exits with it, the retention loop drops it and goes on
Returned(cs, err) ==
    IF args.tag # EmptyString
    THEN /\ calls' = cs
         /\ idx' = idx
         /\ Finish(IF err # NoErr THEN Failed(err) ELSE Ok)
    ELSE /\ idx' = idx + 1
         /\ IF idx + 1 < Len(todo)
            THEN /\ calls' = OpenCall(cs, todo[idx + 2])
                 /\ pc' = "search"
                 /\ result' = result
            ELSE /\ calls' = cs
                 /\ Finish(Ok)

\* DeleteImageByTag up to its search
DeleteImageByTagSearch ==
    /\ pc = "search"
    /\ \E r \in SearchResponses :
         LET plan == DeleteImageByTagPlan(SearchAssets(r))
             n == Len(calls)
         IN  /\ log' = Append(log, [call |-> n, method |-> "GET", ok |-> r.ok,
                                    status |-> r.status, items |-> Len(r.body.val),
                                    asset |-> ""])
             /\ CASE plan.do = "panic" ->
                       /\ calls' = CloseCall(calls, "panicked", NoErr, "none")
                       /\ idx' = idx
                       /\ Finish(Panic("index"))
                  [] plan.do = "delete" ->
                       /\ calls' = [calls EXCEPT ![n].asset = plan.assetId]
                       /\ idx' = idx
                       /\ pc' = "delete"
                       /\ result' = result
                  [] plan.do = "return" ->
                       Returned(CloseCall(calls, "returned", plan.err, plan.msg), plan.err)
    /\ UNCHANGED <<args, resp, out, listed, sorted, todo, manifests, sizeInfo>>

\* DeleteImageByTag from its DELETE on
DeleteImageByTagDelete ==
    /\ pc = "delete"
    /\ \E r \in DeleteResponses :
         LET ret == DeleteImageByTagReturn(DeleteImageByTagByAssetId(r))
             n == Len(calls)
         IN  /\ log' = Append(log, [call |-> n, method |-> "DELETE", ok |-> r.ok,
                                    status |-> r.status, items |-> 0,
                                    asset |-> calls[n].asset])
             /\ Returned(CloseCall(calls, "returned", ret.err, ret.msg), ret.err)
    /\ UNCHANGED <<args, resp, out, listed, sorted, todo, manifests, sizeInfo>>

showTotalImageSizeListTags ==
    /\ pc = "listTags"
    /\ args.cmd = "size"
    /\ \E r \in ListResponses :
         LET o == ListTagsByImage(r)
         IN  /\ resp' = r
             /\ out' = o
             /\ listed' = o.data
             /\ IF o.err # NoErr THEN Finish(Failed(o.err))
                ELSE IF Len(o.data) = 0 THEN Finish(Printed(SumSizes(sizeInfo)))
                ELSE pc' = "manifest" /\ result' = result
    /\ UNCHANGED <<args, sorted, todo, idx, calls, log, manifests, sizeInfo>>

showTotalImageSizeManifest ==
    /\ pc = "manifest"
    /\ args.cmd = "size"
    /\ \E r \in ManifestResponses :
         LET o == ImageManifest(r)
             m == StoreLayers(sizeInfo, o.data.layers)
         IN  /\ resp' = r
             /\ IF o.err # NoErr
                THEN /\ Finish(Failed(o.err))
                     /\ UNCHANGED <<idx, manifests, sizeInfo>>
                ELSE /\ manifests' = Append(manifests, o.data.layers)
                     /\ sizeInfo' = m
                     /\ idx' = idx + 1
                     /\ IF idx + 1 < Len(listed)
                        THEN pc' = pc /\ result' = result
                        ELSE Finish(Printed(SumSizes(m)))
    /\ UNCHANGED <<args, out, listed, sorted, todo, calls, log>>

Next ==
    \/ Start
    \/ listImages
    \/ listTagsByImage
    \/ showImageInfo
    \/ deleteImageListTags
    \/ DeleteImageByTagSearch
    \/ DeleteImageByTagDelete
    \/ showTotalImageSizeListTags
    \/ showTotalImageSizeManifest

Spec == Init /\ [][Next]_vars

-----------------------------------------------------------------------------
(* Properties *)

Range(s) == { s[i] : i \in 1..Len(s) }

Count(s, x) == Cardinality({ i \in 1..Len(s) : s[i] = x })

IsPermutationOf(a, b) ==
    /\ Len(a) = Len(b)
    /\ \A x \in Range(a) \cup Range(b) : Count(a, x) = Count(b, x)

\* the command is a retention deletion: delete --name --keep without --tag
Retention ==
    /\ args.cmd = "delete"
    /\ args.name
    /\ args.creds
    /\ args.tag = EmptyString
    /\ args.keep # 0

\* the retention deletion has listed the tags
Listed == Retention /\ pc \notin {"start", "listTags"}

\* the requests call i of DeleteImageByTag issued
RequestsOf(i) == { k \in 1..Len(log) : log[k].call = i }

DeletesOf(i) == { k \in RequestsOf(i) : log[k].method = "DELETE" }

RequestFailed(k) ==
    \/ ~log[k].ok
    \/ log[k].method = "GET" /\ log[k].status # StatusOK
    \/ log[k].method = "DELETE" /\ log[k].status # StatusAccepted

CallFailed(i) == \E k \in RequestsOf(i) : RequestFailed(k)

\* C1: in a retention deletion (here with keep >= 1), once a deleteTag call
\* has failed no deleteTag call is made for a later tag, and the command
\* ends with an error.
C1_FailureAbortsBatch ==
    (Retention /\ args.keep >= 1) =>
        \A i \in 1..Len(calls) :
            (calls[i].state = "returned" /\ CallFailed(i)) =>
                /\ Len(calls) = i
                /\ pc = "done"
                /\ result.kind = "error"

\* C2: a deleteTag call whose DELETE did not answer 202 returns an error and
\* does not report the tag deleted; it returns success only after a DELETE
\* answered 202 or a search that found no item.
C2_DeleteFailureReturned ==
    \A i \in 1..Len(calls) :
        calls[i].state = "returned" =>
            /\ (\E k \in DeletesOf(i) : RequestFailed(k)) =>
                   (calls[i].err # NoErr /\ calls[i].msg # "deleted")
            /\ calls[i].err = NoErr =>
                   \/ \E k \in DeletesOf(i) : ~RequestFailed(k)
                   \/ \E k \in RequestsOf(i) :
                         /\ log[k].method = "GET"
                         /\ ~RequestFailed(k)
                         /\ log[k].items = 0

\* C3: a DELETE is issued only right after a search of the same deleteTag
\* call that answered 200 with at least one item, at most once per call; a
\* call whose search found nothing returns success, a call whose search
\* failed returns that error, and neither issues a DELETE.
C3_DeleteOnlyAfterSearchHit ==
    /\ \A k \in 1..Len(log) :
          log[k].method = "DELETE" =>
              /\ k > 1
              /\ log[k - 1].method = "GET"
              /\ log[k - 1].call = log[k].call
              /\ log[k - 1].ok
              /\ log[k - 1].status = StatusOK
              /\ log[k - 1].items >= 1
    /\ \A i \in 1..Len(calls) :
          /\ Cardinality(DeletesOf(i)) <= 1
          /\ \A k \in RequestsOf(i) :
                (log[k].method = "GET" /\ calls[i].state = "returned") =>
                    /\ (~RequestFailed(k) /\ log[k].items = 0) =>
                           (calls[i].err = NoErr /\ DeletesOf(i) = {})
                    /\ RequestFailed(k) =>
                           /\ DeletesOf(i) = {}
                           /\ calls[i].err =
                                 (IF log[k].ok THEN HTTPErr(log[k].status)
                                  ELSE TransportErr)

C3_Witness ==
    /\ \E k \in 1..Len(log) : log[k].method = "DELETE"
    /\ \E k \in 1..Len(log) :
          log[k].method = "GET" /\ log[k].status = StatusOK /\ log[k].items = 0
    /\ \E k \in 1..Len(log) : log[k].method = "GET" /\ RequestFailed(k)
    /\ pc = "done"

CallTags == [i \in 1..Len(calls) |-> calls[i].tag]

\* C4: a finished retention deletion (here with keep >= 1) over L sorted
\* tags has called deleteTag exactly on the first L-keep of them, in order,
\* when L >= keep, and not at all when keep >= L.
C4_RetentionSelection ==
    (Listed /\ args.keep >= 1 /\ pc = "done" /\ out.err = NoErr) =>
        /\ Len(sorted) >= args.keep =>
              /\ Len(CallTags) = Len(sorted) - args.keep
              /\ \A i \in 1..Len(CallTags) :
                    i <= Len(sorted) /\ CallTags[i] = sorted[i]
        /\ args.keep >= Len(sorted) => CallTags = <<>>

\* C5: no deleteTag call crashes: each is running or has returned.
C5_DeleteTagReturns ==
    \A i \in 1..Len(calls) : calls[i].state \in {"running", "returned"}

\* the size command got as far as its requests
Sizing == args.cmd = "size" /\ args.name /\ args.creds /\ pc = "done"

\* the layers of the manifests fetched, each once
LayersSeen == UNION { Range(manifests[i]) : i \in 1..Len(manifests) }

RECURSIVE SumOfSizes(_)
SumOfSizes(layers) ==
    IF layers = {} THEN 0
    ELSE LET l == CHOOSE x \in layers : TRUE
         IN  l.size + SumOfSizes(layers \ {l})

\* in a finished size command resp is the last response received: the tag
\* list when listing failed or listed nothing, a manifest otherwise
ManifestFailed ==
    /\ out.err = NoErr
    /\ Len(listed) > 0
    /\ (~resp.ok \/ resp.status # StatusOK)

\* C6: the total the size command prints is the sum of the sizes of the
\* distinct layers of the manifests of all tags; when listing the tags or
\* fetching a manifest fails it ends with that error and prints no total.
C6_TotalCountsDigestOnce ==
    Sizing =>
        IF out.err # NoErr THEN result = Failed(out.err)
        ELSE IF ManifestFailed
        THEN result = Failed(IF resp.ok THEN HTTPErr(resp.status) ELSE TransportErr)
        ELSE /\ Len(manifests) = Len(listed)
             /\ \A l1, l2 \in LayersSeen : l1.digest = l2.digest => l1 = l2
             /\ result = Printed(SumOfSizes(LayersSeen))

C6_Witness ==
    /\ Sizing
    /\ result.kind = "ok"
    /\ result.total > 0
    /\ \E i, j \in 1..Len(manifests) :
          i # j /\ Range(manifests[i]) \cap Range(manifests[j]) # {}

ReadCommand == args.cmd \in {"ls", "tags", "info"} /\ args.creds /\ pc = "done"

NoData == IF args.cmd = "info" THEN ZeroManifest ELSE <<>>

\* C7: a read operation answered with a status other than 200 returns an
\* error carrying that status and no data, whatever the body holds.
C7_Non200IsError ==
    (ReadCommand /\ resp.ok /\ resp.status # StatusOK) =>
        /\ out.err = HTTPErr(resp.status)
        /\ out.data = NoData
        /\ result = Failed(out.err)

C7_Witness ==
    /\ ReadCommand
    /\ args.cmd = "ls"
    /\ resp.ok
    /\ resp.status = StatusAccepted
    /\ resp.body.json
    /\ Len(resp.body.val) > 0

\* the body of a 200 answer does not decode into the Go value
Undecodable ==
    /\ ReadCommand
    /\ resp.ok
    /\ resp.status = StatusOK
    /\ \/ ~resp.body.json
       \/ \E i \in 1..Len(resp.body.val) : ~resp.body.val[i].typed

OutList == IF args.cmd = "info" THEN out.data.layers ELSE out.data

ZeroElement == IF args.cmd = "info" THEN ZeroLayer ELSE EmptyString

\* C8 as claimed: a 200 answer whose body does not decode yields an empty
\* list (a zero-valued manifest) and no error.
C8_DecodeFailureYieldsEmpty ==
    Undecodable => (out.err = NoErr /\ OutList = <<>>)

\* C8 as amended: a 200 answer whose body does not decode yields no error;
\* the list is empty when the body is not JSON, and otherwise has one element
\* per element of the body, the zero value where the body's element is of
\* the wrong type.
C8_DecodeFailureNotSurfaced ==
    Undecodable =>
        /\ out.err = NoErr
        /\ result = Ok
        /\ ~resp.body.json => OutList = <<>>
        /\ resp.body.json =>
              /\ Len(OutList) = Len(resp.body.val)
              /\ \A i \in 1..Len(OutList) :
                    OutList[i] = (IF resp.body.val[i].typed
                                  THEN resp.body.val[i].v ELSE ZeroElement)

C8_Witness ==
    /\ Undecodable
    /\ args.cmd = "tags"
    /\ resp.body.json
    /\ Len(out.data) = 2

Kept == SubSeq(sorted, Len(sorted) - args.keep + 1, Len(sorted))

\* C9: in a retention deletion with 1 <= keep <= len(tags), every tag passed
\* to deleteTag has an extracted number no greater than that of any tag
\* kept, the tags passed are the start of the tags selected, and the tags
\* selected followed by the tags kept are a permutation of the tags listed.
C9_KeepsMostRecent ==
    (Listed /\ out.err = NoErr /\ 1 <= args.keep /\ args.keep <= Len(listed)) =>
        /\ \A i \in 1..Len(CallTags), j \in 1..Len(Kept) :
              extractNumberFromString(CallTags[i]) <= extractNumberFromString(Kept[j])
        /\ Len(CallTags) <= Len(todo)
        /\ \A i \in 1..Len(CallTags) : CallTags[i] = todo[i]
        /\ (pc = "done" /\ result.kind = "ok") => CallTags = todo
        /\ IsPermutationOf(todo \o Kept, listed)

C9_Witness ==
    /\ Listed
    /\ pc = "done"
    /\ args.keep = 1
    /\ Len(listed) = 3
    /\ Len(CallTags) = 2
    /\ extractNumberFromString(CallTags[1]) < extractNumberFromString(Kept[1])
    /\ listed # sorted

\* C10: a retention deletion with any non-zero keep calls deleteTag only on
\* tags of the list it got, at most once per tag of the list, without
\* slicing past the end of the list; when listing fails it makes no call and
\* ends with the listing error.
C10_RetentionStaysInList ==
    Listed =>
        /\ \A i \in 1..Len(calls) : calls[i].tag \in Range(listed)
        /\ Len(calls) <= Len(listed)
        /\ result # Panic("slice")
        /\ out.err # NoErr => (calls = <<>> /\ result = Failed(out.err))

====
